---- MODULE Spec2Model ----
(***************************************************************************)
(* Model of the pure layout helpers of the multi-row window list applet    *)
(* (src/helpers.js): row planning, width shrinking, layout mode, size      *)
(* adaptation, grouped insertion and drag location; and of install.sh and  *)
(* uninstall.sh.  The parts share no state, so each has a specification of *)
(* its own (SpecLayout, SpecGroup, SpecDrag, SpecSize, SpecScripts) over   *)
(* its own variables; the variables of the other parts stay idle.          *)
(*                                                                         *)
(* Numbers are JavaScript numbers in the source; the model uses integers   *)
(* (pixel sizes and counts).  Math.floor(a / b) is a \div b, which TLC     *)
(* evaluates as floor division for either sign of a and b; Math.ceil(a/b)  *)
(* is CeilDiv(a, b).                                                       *)
(***************************************************************************)
EXTENDS Integers, Sequences, FiniteSets, TLC

VARIABLES
    \* ---- layout planning pass (calcAdaptiveRowCount, calcLayoutMode, calcButtonWidth)
    containerWidth,   \* available width in pixels
    visibleCount,     \* number of visible window buttons
    buttonWidth,      \* configured button width
    maxRows,          \* configured row cap
    minWidth,         \* minimum button width
    computedRows,     \* result of calcAdaptiveRowCount
    layoutMode,       \* result of calcLayoutMode(computedRows)
    effectiveWidth,   \* result of calcButtonWidth
    planned,          \* which results of the pass have been computed
    \* ---- grouped insertion (calcGroupedInsertionIndex)
    windows,          \* the button list in order: records [appId, seq], seq = arrival number
    before,           \* the button list as it was before the last insertion
    newAppId,         \* app id of the last inserted window
    insertIndex,      \* what calcGroupedInsertionIndex returned for it (-1: no insertion yet)
    startedEmpty,     \* whether the list was empty at the start
    \* ---- drag location (calcDragInsertionIndex)
    childRects,       \* bounding rectangles of the children, in order
    cursorX,          \* cursor position
    cursorY,
    isVertical,       \* panel orientation flag passed by the caller
    insertPos,        \* what calcDragInsertionIndex returned
    dragged,          \* whether calcDragInsertionIndex has been called
    \* ---- size adaptation (calcRowHeight, calcAdaptiveFontSize, calcAdaptiveIconSize)
    panelHeight,      \* total panel height in pixels
    numberOfRows,     \* row count passed to the size helpers
    verticalMargin,   \* per-row margin
    overrideSize,     \* user icon size override (0 = auto-scale)
    fontOverride,     \* user label font size setting (0 = system default)
    rowHeight,        \* result of calcRowHeight (a JavaScript number, see below)
    fontSize,         \* result of calcAdaptiveFontSize
    iconSize,         \* result of calcAdaptiveIconSize (a JavaScript number)
    buttonHeight,     \* result of calcButtonHeight (a JavaScript number)
    sized,            \* which size results have been computed
    \* ---- install.sh and uninstall.sh
    appletPath,       \* what is at $HOME/.local/share/cinnamon/applets/$UUID
    enabledApplets,   \* the dconf list /org/cinnamon/enabled-applets
    cinnamonFound,    \* whether `command -v cinnamon` succeeds
    dconfFound,       \* whether `command -v dconf` succeeds
    filesPresent,     \* whether the repo holds every required file
    metaUuidOk,       \* whether metadata.json carries the applet UUID
    runs              \* the script runs so far, each with its exit code

layoutVars == <<containerWidth, visibleCount, buttonWidth, maxRows, minWidth,
                computedRows, layoutMode, effectiveWidth, planned>>

groupVars == <<windows, before, newAppId, insertIndex, startedEmpty>>

dragVars == <<childRects, cursorX, cursorY, isVertical, insertPos, dragged>>

sizeVars == <<panelHeight, numberOfRows, verticalMargin, overrideSize,
              fontOverride, rowHeight, fontSize, iconSize, buttonHeight, sized>>

scriptVars == <<appletPath, enabledApplets, cinnamonFound, dconfFound,
                filesPresent, metaUuidOk, runs>>

vars == <<layoutVars, groupVars, dragVars, sizeVars, scriptVars>>

----------------------------------------------------------------------------
(* Bounds of the model *)

MaxContainerWidth == 16
MaxCount == 10
MaxButtonWidth == 6
MaxRowCap == 4
MaxMinWidth == 4
MaxInitial == 3      \* longest button list at the start
MaxWindows == 5      \* longest button list
MaxRects == 3        \* longest rect sequence
MaxRectX == 1        \* largest rect x
MaxPanelHeight == 200
MaxMargin == 2
MaxOverride == 13
MaxEntries == 3      \* longest enabled-applets list
MaxRuns == 3         \* script runs in one behaviour

----------------------------------------------------------------------------
(* Arithmetic of the source *)

Max(a, b) == IF a >= b THEN a ELSE b
Min(a, b) == IF a <= b THEN a ELSE b

\* Math.ceil(a / b) for b # 0
CeilDiv(a, b) == -((-a) \div b)

----------------------------------------------------------------------------
(* helpers.js: the layout functions *)

calcAdaptiveRowCount_noCap(cw, buttonCount, bw, mr) ==
    IF buttonCount <= 0 \/ cw <= 0 \/ bw <= 0 \/ mr <= 0
    THEN 1
    ELSE LET buttonsPerRow == Max(1, cw \div bw)
             needed == CeilDiv(buttonCount, buttonsPerRow)
         IN  Max(1, needed)

calcAdaptiveRowCount_noWidthGuard(cw, buttonCount, bw, mr) ==
    IF buttonCount <= 0 \/ bw <= 0 \/ mr <= 0
    THEN 1
    ELSE LET buttonsPerRow == Max(1, cw \div bw)
             needed == CeilDiv(buttonCount, buttonsPerRow)
         IN  Max(1, Min(needed, mr))

calcAdaptiveRowCount_swapped(cw, buttonCount, bw, mr) ==
    IF buttonCount <= 0 \/ cw <= 0 \/ bw <= 0 \/ mr <= 0
    THEN 1
    ELSE LET buttonsPerRow == Max(1, cw \div bw)
             needed == CeilDiv(buttonsPerRow, buttonCount)
         IN  Max(1, Min(needed, mr))

calcAdaptiveRowCount(cw, buttonCount, bw, mr) ==
    IF buttonCount <= 0 \/ cw <= 0 \/ bw <= 0 \/ mr <= 0
    THEN 1
    ELSE LET buttonsPerRow == Max(1, cw \div bw)
             needed == CeilDiv(buttonCount, buttonsPerRow)
         IN  Max(1, Min(needed, mr))

calcLayoutMode_offByOne(rows) ==
    IF rows <= 2 THEN "spacious" ELSE "compact"

calcLayoutMode(rows) ==
    IF rows <= 1 THEN "spacious" ELSE "compact"

\* The shrink branch of calcButtonWidth, shared by the mutants below.
ShrunkWidth(cw, count, mr, mw) ==
    LET neededPerRow == CeilDiv(count, mr)
    IN  Max(mw, cw \div neededPerRow)

calcButtonWidth_noFloor(cw, count, bw, mr, mw) ==
    IF count <= 0 \/ cw <= 0 \/ mr <= 0 THEN bw
    ELSE IF bw = 0 THEN bw
    ELSE IF count <= Max(1, cw \div bw) * mr THEN bw
    ELSE cw \div CeilDiv(count, mr)

calcButtonWidth_strictBoundary(cw, count, bw, mr, mw) ==
    IF count <= 0 \/ cw <= 0 \/ mr <= 0 THEN bw
    ELSE IF bw = 0 THEN bw
    ELSE IF count < Max(1, cw \div bw) * mr THEN bw
    ELSE ShrunkWidth(cw, count, mr, mw)

calcButtonWidth_ceilWidth(cw, count, bw, mr, mw) ==
    IF count <= 0 \/ cw <= 0 \/ mr <= 0 THEN bw
    ELSE IF bw = 0 THEN bw
    ELSE IF count <= Max(1, cw \div bw) * mr THEN bw
    ELSE Max(mw, CeilDiv(cw, CeilDiv(count, mr)))

calcButtonWidth_oneRowCapacity(cw, count, bw, mr, mw) ==
    IF count <= 0 \/ cw <= 0 \/ mr <= 0 THEN bw
    ELSE IF bw = 0 THEN bw
    ELSE IF count <= Max(1, cw \div bw) THEN bw
    ELSE ShrunkWidth(cw, count, mr, mw)

\* Scales the given width by capacity / count instead of dividing the container.
calcButtonWidth_proportional(cw, count, bw, mr, mw) ==
    IF count <= 0 \/ cw <= 0 \/ mr <= 0 THEN bw
    ELSE IF bw = 0 THEN bw
    ELSE LET maxVisible == Max(1, cw \div bw) * mr
         IN  IF count <= maxVisible THEN bw
             ELSE Max(mw, (bw * maxVisible) \div count)

\* Math.floor instead of Math.ceil for the buttons needed per row.
calcButtonWidth_floorPerRow(cw, count, bw, mr, mw) ==
    IF count <= 0 \/ cw <= 0 \/ mr <= 0 THEN bw
    ELSE IF bw = 0 THEN bw
    ELSE IF count <= Max(1, cw \div bw) * mr THEN bw
    ELSE Max(mw, cw \div Max(1, count \div mr))

calcButtonWidth_noWidthGuard(cw, count, bw, mr, mw) ==
    IF count <= 0 \/ mr <= 0 THEN bw
    ELSE IF bw = 0 THEN bw
    ELSE IF count <= Max(1, cw \div bw) * mr THEN bw
    ELSE ShrunkWidth(cw, count, mr, mw)

\* With buttonWidth = 0 (and containerWidth > 0 past the guard) the source
\* divides by zero: containerWidth / 0 is +Infinity, so buttonsPerRow and
\* maxVisible are +Infinity, visibleCount <= maxVisible holds and the
\* configured width is returned.
calcButtonWidth(cw, count, bw, mr, mw) ==
    IF count <= 0 \/ cw <= 0 \/ mr <= 0 THEN bw
    ELSE IF bw = 0 THEN bw
    ELSE LET buttonsPerRow == Max(1, cw \div bw)
             maxVisible == buttonsPerRow * mr
         IN  IF count <= maxVisible THEN bw
             ELSE LET neededPerRow == CeilDiv(count, mr)
                  IN  Max(mw, cw \div neededPerRow)

----------------------------------------------------------------------------
(* helpers.js: grouped insertion *)

\* App ids are strings.  Null and Undefined stand for the JavaScript values null
\* and undefined; with the empty string they are the falsy values an app id
\* can take (!newAppId).
Null == "<null>"
Undefined == "<undefined>"
AppIds == {"firefox", "terminal", "", Null, Undefined}

IsFalsy(appId) == appId \in {Null, Undefined, ""}

\* The loop of calcGroupedInsertionIndex from 0-based index i downwards;
\* existingAppIds[i] of the source is ids[i + 1] here.
RECURSIVE ScanBack(_, _, _)
ScanBack(ids, appId, i) ==
    IF i < 0 THEN Len(ids)
    ELSE IF ids[i + 1] = appId THEN i + 1
    ELSE ScanBack(ids, appId, i - 1)

RECURSIVE ScanForward(_, _, _)
ScanForward(ids, appId, i) ==
    IF i >= Len(ids) THEN Len(ids)
    ELSE IF ids[i + 1] = appId THEN i + 1
    ELSE ScanForward(ids, appId, i + 1)

calcGroupedInsertionIndex_neverMatches(existingAppIds, appId) ==
    Len(existingAppIds)

calcGroupedInsertionIndex_firstMatch(existingAppIds, appId) ==
    IF IsFalsy(appId) THEN Len(existingAppIds)
    ELSE ScanForward(existingAppIds, appId, 0)

calcGroupedInsertionIndex_beforeMatch(existingAppIds, appId) ==
    IF IsFalsy(appId) THEN Len(existingAppIds)
    ELSE LET r == ScanBack(existingAppIds, appId, Len(existingAppIds) - 1)
         IN  IF \E k \in 1..Len(existingAppIds) : existingAppIds[k] = appId
             THEN r - 1 ELSE r

calcGroupedInsertionIndex(existingAppIds, appId) ==
    IF IsFalsy(appId) THEN Len(existingAppIds)
    ELSE ScanBack(existingAppIds, appId, Len(existingAppIds) - 1)

----------------------------------------------------------------------------
(* helpers.js: drag location *)

\* Centers are x + width / 2 and y + height / 2 in the source, half-pixel
\* values for odd sizes.  The model keeps them exact in integers by doubling
\* every length: TwiceDx is 2 * dx, and Dist4 is 4 * dist.  Comparisons between
\* distances are unchanged by the factor; the sentinel minDist = -1 stays -1
\* (no distance is negative).
TwiceDx(rect, x) == 2 * x - (2 * rect.x + rect.width)
TwiceDy(rect, y) == 2 * y - (2 * rect.y + rect.height)
Dist4(rect, x, y) ==
    TwiceDx(rect, x) * TwiceDx(rect, x) + TwiceDy(rect, y) * TwiceDy(rect, y)

\* The loop of calcDragInsertionIndex from 0-based index i on, carrying
\* insertPos and minDist; childRects[i] of the source is rects[i + 1] here.
RECURSIVE DragScan(_, _, _, _, _, _)
DragScan(rects, x, y, i, pos, minDist) ==
    IF i >= Len(rects) THEN pos
    ELSE LET dist == Dist4(rects[i + 1], x, y)
         IN  IF dist < minDist \/ minDist = -1
             THEN DragScan(rects, x, y, i + 1, i, dist)
             ELSE DragScan(rects, x, y, i + 1, pos, minDist)

RECURSIVE DragScanLastWins(_, _, _, _, _, _)
DragScanLastWins(rects, x, y, i, pos, minDist) ==
    IF i >= Len(rects) THEN pos
    ELSE LET dist == Dist4(rects[i + 1], x, y)
         IN  IF dist <= minDist \/ minDist = -1
             THEN DragScanLastWins(rects, x, y, i + 1, i, dist)
             ELSE DragScanLastWins(rects, x, y, i + 1, pos, minDist)

calcDragInsertionIndex_lastWins(rects, x, y, vertical) ==
    DragScanLastWins(rects, x, y, 0, -1, -1)

\* The loop with the distance taken along chosen axes only (wx, wy are 0 or 1).
RECURSIVE DragScanAxes(_, _, _, _, _, _, _, _)
DragScanAxes(rects, x, y, i, pos, minDist, wx, wy) ==
    IF i >= Len(rects) THEN pos
    ELSE LET rect == rects[i + 1]
             dist == wx * TwiceDx(rect, x) * TwiceDx(rect, x)
                     + wy * TwiceDy(rect, y) * TwiceDy(rect, y)
         IN  IF dist < minDist \/ minDist = -1
             THEN DragScanAxes(rects, x, y, i + 1, i, dist, wx, wy)
             ELSE DragScanAxes(rects, x, y, i + 1, pos, minDist, wx, wy)

calcDragInsertionIndex_horizontalOnly(rects, x, y, vertical) ==
    DragScanAxes(rects, x, y, 0, -1, -1, 1, 0)

calcDragInsertionIndex_verticalAlongY(rects, x, y, vertical) ==
    IF vertical THEN DragScanAxes(rects, x, y, 0, -1, -1, 0, 1)
    ELSE DragScanAxes(rects, x, y, 0, -1, -1, 1, 1)

calcDragInsertionIndex(rects, x, y, vertical) ==
    DragScan(rects, x, y, 0, -1, -1)

----------------------------------------------------------------------------
(* helpers.js: size adaptation *)

\* calcRowHeight divides by numberOfRows without a guard, so its result can be
\* a non-finite JavaScript number.  Results that can be non-finite are records:
\* a finite number n is Num(n); the others are PosInf, NegInf and NaN.
Num(n) == [k |-> "num", v |-> n]
PosInf == [k |-> "inf", v |-> 1]
NegInf == [k |-> "inf", v |-> -1]
NaN == [k |-> "nan", v |-> 0]

IsFinite(r) == r.k = "num"

calcRowHeight_marginOnce(h, rows, margin) ==
    LET available == h - margin
    IN  IF rows # 0 THEN Num(available \div rows)
        ELSE IF available > 0 THEN PosInf
        ELSE IF available < 0 THEN NegInf
        ELSE NaN

\* Math.floor(available / numberOfRows); with numberOfRows = 0 the quotient is
\* +Infinity, -Infinity or NaN (0 / 0) and Math.floor returns it unchanged.
calcRowHeight(h, rows, margin) ==
    LET available == h - (margin * rows)
    IN  IF rows # 0 THEN Num(available \div rows)
        ELSE IF available > 0 THEN PosInf
        ELSE IF available < 0 THEN NegInf
        ELSE NaN

\* The margin is not handed on to calcRowHeight (its default is 0).
calcButtonHeight_defaultMargin(h, rows, margin) ==
    calcRowHeight(h, rows, 0)

\* Buttons fill their row.
calcButtonHeight(h, rows, margin) ==
    calcRowHeight(h, rows, margin)

\* label-font-size setting: 0 is the system default, 8 lies within the
\* adaptive range 6..10 and 16 outside it (the schema allows 0..24).
FontOverrides == {0, 8, 16}

calcAdaptiveFontSize_noMaximum(h, rows, margin) ==
    IF rows <= 1 THEN 0
    ELSE Max(6, (2 * calcRowHeight(h, rows, margin).v) \div 7)

calcAdaptiveFontSize_noMinimum(h, rows, margin) ==
    IF rows <= 1 THEN 0
    ELSE Min(10, (2 * calcRowHeight(h, rows, margin).v) \div 7)

\* Past the guard computedRows >= 2, so rowHeight is finite; rowHeight / 3.5
\* is 2 * rowHeight / 7 and its floor is exact.
calcAdaptiveFontSize(h, rows, margin) ==
    IF rows <= 1 THEN 0
    ELSE LET rh == calcRowHeight(h, rows, margin).v
         IN  Max(6, Min(10, (2 * rh) \div 7))

\* Math.max(12, Math.floor(rowHeight * ratio)) on a JavaScript number:
\* NaN and +Infinity pass through floor and max, -Infinity gives 12.
\* rowHeight * 0.25 is rowHeight / 4 and rowHeight * 0.4 is 2 * rowHeight / 5;
\* the floor is the integer floor (the double nearest 0.4 lies above 0.4, so
\* a positive product that is an integer is never rounded below it, and a
\* negative product is below 12 either way).
ScaledIcon(rh, rows) ==
    IF rh.k = "num"
    THEN Num(Max(12, IF rows <= 1 THEN rh.v \div 4 ELSE (2 * rh.v) \div 5))
    ELSE IF rh = NegInf THEN Num(12)
    ELSE rh

calcAdaptiveIconSize_sameRatio(h, rows, override, margin) ==
    IF override > 0 THEN Num(override)
    ELSE LET rh == calcRowHeight(h, rows, margin)
         IN  IF rh.k = "num" THEN Num(Max(12, (2 * rh.v) \div 5))
             ELSE IF rh = NegInf THEN Num(12)
             ELSE rh

calcAdaptiveIconSize_clampsOverride(h, rows, override, margin) ==
    IF override > 0 THEN Num(Max(12, override))
    ELSE ScaledIcon(calcRowHeight(h, rows, margin), rows)

calcAdaptiveIconSize_noMinimum(h, rows, override, margin) ==
    IF override > 0 THEN Num(override)
    ELSE LET rh == calcRowHeight(h, rows, margin)
         IN  IF rh.k = "num"
             THEN Num(IF rows <= 1 THEN rh.v \div 4 ELSE (2 * rh.v) \div 5)
             ELSE rh

calcAdaptiveIconSize_swappedRatio(h, rows, override, margin) ==
    IF override > 0 THEN Num(override)
    ELSE LET rh == calcRowHeight(h, rows, margin)
         IN  IF rh.k = "num"
             THEN Num(Max(12, IF rows <= 1 THEN (2 * rh.v) \div 5
                              ELSE rh.v \div 4))
             ELSE IF rh = NegInf THEN Num(12)
             ELSE rh

calcAdaptiveIconSize(h, rows, override, margin) ==
    IF override > 0 THEN Num(override)
    ELSE LET rh == calcRowHeight(h, rows, margin)
         IN  ScaledIcon(rh, rows)

----------------------------------------------------------------------------
(* install.sh and uninstall.sh.  Both run under `set -eo pipefail`.  The
   scripts test for cinnamon and dconf themselves; the other commands they
   call (python3, grep, readlink, ln, rm, mkdir) are taken to be installed,
   and dconf read / dconf write to read and replace the stored list. *)

UUID == "multirow-window-list@cinnamon"
STOCK_UUID == "window-list@cinnamon.org"

\* What can be at the applet path: nothing, a symlink that resolves to the
\* repo, a symlink that resolves elsewhere (its target need not exist), a
\* symlink `readlink -f` cannot resolve (a missing directory on the way), or
\* a real directory.
PathKinds == {"absent", "link_repo", "link_other", "link_unresolvable", "dir"}

IsLink(path) == path \in {"link_repo", "link_other", "link_unresolvable"}

\* An enabled-applets entry is the text panel:zone:order:uuid:id; it is kept
\* as its uuid and instance id.  No modelled uuid is part of another, so an
\* entry contains a uuid exactly when it is the entry's own.
AppletEntries ==
    { [uuid |-> STOCK_UUID, id |-> 2],
      [uuid |-> UUID, id |-> 18],
      [uuid |-> UUID, id |-> 19],
      [uuid |-> "calendar@cinnamon.org", id |-> 3] }

Contains(entry, uuid) == entry.uuid = uuid

ListContains(list, uuid) == \E i \in 1..Len(list) : Contains(list[i], uuid)

InstallExit_noDirectoryCheck(cinnamon, files, meta, path) ==
    IF ~cinnamon THEN 1
    ELSE IF ~files THEN 1
    ELSE IF ~meta THEN 1
    ELSE IF path = "link_unresolvable" THEN 1
    ELSE 0

\* install.sh steps 1 to 4: the exit code.  Steps 5 to 7 cannot fail.
InstallExit(cinnamon, files, meta, path) ==
    IF ~cinnamon THEN 1                         \* step 1
    ELSE IF ~files THEN 1                       \* step 2
    ELSE IF ~meta THEN 1                        \* step 3
    ELSE IF path = "link_unresolvable" THEN 1   \* step 4: readlink -f fails
    ELSE IF path = "dir" THEN 1                 \* step 4: directory install
    ELSE 0

InstallPath_keepsForeignLink(cinnamon, files, meta, path) ==
    IF InstallExit(cinnamon, files, meta, path) # 0 THEN path
    ELSE IF ~IsLink(path) THEN "link_repo" ELSE path

\* install.sh steps 4 and 5: what is at the applet path afterwards.  A
\* symlink to another target is removed; a symlink is created unless one is
\* there.
InstallPath(cinnamon, files, meta, path) ==
    IF InstallExit(cinnamon, files, meta, path) # 0 THEN path
    ELSE LET afterCheck == IF path = "link_other" THEN "absent" ELSE path
         IN  IF ~IsLink(afterCheck) THEN "link_repo" ELSE afterCheck

UninstallEnabled_dropsStock(dconf, list) ==
    IF ~dconf THEN list
    ELSE IF ListContains(list, UUID)
         THEN SelectSeq(list, LAMBDA e : ~Contains(e, UUID)
                                         /\ ~Contains(e, STOCK_UUID))
         ELSE list

\* uninstall.sh steps 1 and 2: the enabled-applets list afterwards.
UninstallEnabled(dconf, list) ==
    IF ~dconf THEN list
    ELSE IF ListContains(list, UUID)
         THEN SelectSeq(list, LAMBDA e : ~Contains(e, UUID))
         ELSE list

UninstallPath_linksOnly(path) ==
    IF IsLink(path) THEN "absent" ELSE path

\* uninstall.sh step 4: what is at the applet path afterwards.
UninstallPath(path) ==
    IF IsLink(path) THEN "absent"
    ELSE IF path = "dir" THEN "absent"
    ELSE path

----------------------------------------------------------------------------
(* Idle values of each part, for the specifications of the other parts *)

LayoutIdle ==
    /\ containerWidth = 0 /\ visibleCount = 0 /\ buttonWidth = 0
    /\ maxRows = 0 /\ minWidth = 0
    /\ computedRows = 0 /\ layoutMode = "unset" /\ effectiveWidth = 0
    /\ planned = {}

GroupIdle ==
    /\ windows = <<>> /\ before = <<>> /\ newAppId = Null
    /\ insertIndex = -1 /\ startedEmpty = TRUE

DragIdle ==
    /\ childRects = <<>> /\ cursorX = 0 /\ cursorY = 0
    /\ isVertical = FALSE /\ insertPos = -1 /\ dragged = FALSE

SizeIdle ==
    /\ panelHeight = 0 /\ numberOfRows = 0 /\ verticalMargin = 0
    /\ overrideSize = 0 /\ fontOverride = 0
    /\ rowHeight = Num(0) /\ fontSize = 0 /\ iconSize = Num(0)
    /\ buttonHeight = Num(0)
    /\ sized = {}

ScriptIdle ==
    /\ appletPath = "absent" /\ enabledApplets = <<>>
    /\ cinnamonFound = FALSE /\ dconfFound = FALSE
    /\ filesPresent = FALSE /\ metaUuidOk = FALSE
    /\ runs = <<>>

----------------------------------------------------------------------------
(* Layout planning pass: the inputs are drawn once, the helpers are applied
   to them.  The layout mode is derived from the computed row count. *)

LayoutInputs ==
    /\ containerWidth \in -1..MaxContainerWidth
    /\ visibleCount \in -1..MaxCount
    /\ buttonWidth \in -1..MaxButtonWidth
    /\ maxRows \in -1..MaxRowCap
    /\ minWidth \in 1..MaxMinWidth

LayoutInit ==
    /\ LayoutInputs
    /\ computedRows = 0
    /\ layoutMode = "unset"
    /\ effectiveWidth = 0
    /\ planned = {}
    /\ GroupIdle /\ DragIdle /\ SizeIdle /\ ScriptIdle

ApplyRowCount ==
    /\ "rows" \notin planned
    /\ computedRows' = calcAdaptiveRowCount(containerWidth, visibleCount, buttonWidth, maxRows)
    /\ planned' = planned \cup {"rows"}
    /\ UNCHANGED <<containerWidth, visibleCount, buttonWidth, maxRows, minWidth,
                   layoutMode, effectiveWidth>>
    /\ UNCHANGED <<groupVars, dragVars, sizeVars, scriptVars>>

ApplyLayoutMode ==
    /\ "rows" \in planned
    /\ "mode" \notin planned
    /\ layoutMode' = calcLayoutMode(computedRows)
    /\ planned' = planned \cup {"mode"}
    /\ UNCHANGED <<containerWidth, visibleCount, buttonWidth, maxRows, minWidth,
                   computedRows, effectiveWidth>>
    /\ UNCHANGED <<groupVars, dragVars, sizeVars, scriptVars>>

ApplyButtonWidth ==
    /\ "width" \notin planned
    /\ effectiveWidth' = calcButtonWidth(containerWidth, visibleCount, buttonWidth, maxRows, minWidth)
    /\ planned' = planned \cup {"width"}
    /\ UNCHANGED <<containerWidth, visibleCount, buttonWidth, maxRows, minWidth,
                   computedRows, layoutMode>>
    /\ UNCHANGED <<groupVars, dragVars, sizeVars, scriptVars>>

LayoutNext == ApplyRowCount \/ ApplyLayoutMode \/ ApplyButtonWidth

----------------------------------------------------------------------------
(* Grouped insertion: the button list starts as any list of app ids (the
   empty list included); each new window is inserted at the index
   calcGroupedInsertionIndex returns for the current list. *)

AppIdsOf(ws) == [k \in 1..Len(ws) |-> ws[k].appId]

InsertAt(ws, index, w) ==
    SubSeq(ws, 1, index) \o <<w>> \o SubSeq(ws, index + 1, Len(ws))

InitialLists ==
    UNION {[1..n -> AppIds] : n \in 0..MaxInitial}

GroupInit ==
    /\ \E ids \in InitialLists :
         windows = [k \in 1..Len(ids) |-> [appId |-> ids[k], seq |-> k]]
    /\ before = windows
    /\ newAppId = Null
    /\ insertIndex = -1
    /\ startedEmpty = (windows = <<>>)
    /\ LayoutIdle /\ DragIdle /\ SizeIdle /\ ScriptIdle

AddWindow(appId) ==
    /\ Len(windows) < MaxWindows
    /\ LET index == calcGroupedInsertionIndex(AppIdsOf(windows), appId)
       IN  /\ insertIndex' = index
           /\ windows' = InsertAt(windows, index,
                                  [appId |-> appId, seq |-> Len(windows) + 1])
    /\ before' = windows
    /\ newAppId' = appId
    /\ UNCHANGED startedEmpty
    /\ UNCHANGED <<layoutVars, dragVars, sizeVars, scriptVars>>

GroupNext == \E appId \in AppIds : AddWindow(appId)

----------------------------------------------------------------------------
(* Drag location: the rects and the cursor are drawn once, and
   calcDragInsertionIndex is applied to them. *)

RectSizes == {1, 2}
RowTops == {0, 2}
RowHeights == {2}

Rects == [x : 0..MaxRectX, y : RowTops, width : RectSizes, height : RowHeights]

RectLists == UNION {[1..n -> Rects] : n \in 0..MaxRects}

DragInit ==
    /\ childRects \in RectLists
    /\ cursorX \in -1..(MaxRectX + 2)
    /\ cursorY \in -1..4
    /\ isVertical \in BOOLEAN
    /\ insertPos = -1
    /\ dragged = FALSE
    /\ LayoutIdle /\ GroupIdle /\ SizeIdle /\ ScriptIdle

DragOver ==
    /\ ~dragged
    /\ insertPos' = calcDragInsertionIndex(childRects, cursorX, cursorY, isVertical)
    /\ dragged' = TRUE
    /\ UNCHANGED <<childRects, cursorX, cursorY, isVertical>>
    /\ UNCHANGED <<layoutVars, groupVars, sizeVars, scriptVars>>

DragNext == DragOver

----------------------------------------------------------------------------
(* Size adaptation: the inputs are drawn once, and the size helpers are
   applied to them. *)

SizeInit ==
    /\ panelHeight \in -1..MaxPanelHeight
    /\ numberOfRows \in -1..MaxRowCap
    /\ verticalMargin \in 0..MaxMargin
    /\ overrideSize \in -1..MaxOverride
    /\ fontOverride \in FontOverrides
    /\ rowHeight = Num(0)
    /\ fontSize = 0
    /\ iconSize = Num(0)
    /\ buttonHeight = Num(0)
    /\ sized = {}
    /\ LayoutIdle /\ GroupIdle /\ DragIdle /\ ScriptIdle

ApplyRowHeight ==
    /\ "rowHeight" \notin sized
    /\ rowHeight' = calcRowHeight(panelHeight, numberOfRows, verticalMargin)
    /\ sized' = sized \cup {"rowHeight"}
    /\ UNCHANGED <<panelHeight, numberOfRows, verticalMargin, overrideSize,
                   fontOverride, fontSize, iconSize, buttonHeight>>
    /\ UNCHANGED <<layoutVars, groupVars, dragVars, scriptVars>>

ApplyFontSize ==
    /\ "fontSize" \notin sized
    /\ fontSize' = calcAdaptiveFontSize(panelHeight, numberOfRows, verticalMargin)
    /\ sized' = sized \cup {"fontSize"}
    /\ UNCHANGED <<panelHeight, numberOfRows, verticalMargin, overrideSize,
                   fontOverride, rowHeight, iconSize, buttonHeight>>
    /\ UNCHANGED <<layoutVars, groupVars, dragVars, scriptVars>>

ApplyIconSize ==
    /\ "iconSize" \notin sized
    /\ iconSize' = calcAdaptiveIconSize(panelHeight, numberOfRows, overrideSize, verticalMargin)
    /\ sized' = sized \cup {"iconSize"}
    /\ UNCHANGED <<panelHeight, numberOfRows, verticalMargin, overrideSize,
                   fontOverride, rowHeight, fontSize, buttonHeight>>
    /\ UNCHANGED <<layoutVars, groupVars, dragVars, scriptVars>>

ApplyButtonHeight ==
    /\ "buttonHeight" \notin sized
    /\ buttonHeight' = calcButtonHeight(panelHeight, numberOfRows, verticalMargin)
    /\ sized' = sized \cup {"buttonHeight"}
    /\ UNCHANGED <<panelHeight, numberOfRows, verticalMargin, overrideSize,
                   fontOverride, rowHeight, fontSize, iconSize>>
    /\ UNCHANGED <<layoutVars, groupVars, dragVars, scriptVars>>

SizeNext ==
    ApplyRowHeight \/ ApplyFontSize \/ ApplyIconSize \/ ApplyButtonHeight

----------------------------------------------------------------------------
(* Script runs: the file system, the dconf list and the environment are
   drawn once; install.sh and uninstall.sh then run in any order. *)

EntryLists == UNION { [1..n -> AppletEntries] : n \in 0..MaxEntries }

ScriptInit ==
    /\ appletPath \in PathKinds
    /\ enabledApplets \in EntryLists
    /\ cinnamonFound \in BOOLEAN
    /\ dconfFound \in BOOLEAN
    /\ filesPresent \in BOOLEAN
    /\ metaUuidOk \in BOOLEAN
    /\ runs = <<>>
    /\ LayoutIdle /\ GroupIdle /\ DragIdle /\ SizeIdle

RunInstall ==
    /\ Len(runs) < MaxRuns
    /\ appletPath' = InstallPath(cinnamonFound, filesPresent, metaUuidOk,
                                 appletPath)
    /\ runs' = Append(runs,
          [script |-> "install",
           code |-> InstallExit(cinnamonFound, filesPresent, metaUuidOk,
                                appletPath),
           pathBefore |-> appletPath, pathAfter |-> appletPath',
           enabledBefore |-> enabledApplets,
           enabledAfter |-> enabledApplets])
    /\ UNCHANGED <<enabledApplets, cinnamonFound, dconfFound, filesPresent,
                   metaUuidOk>>
    /\ UNCHANGED <<layoutVars, groupVars, dragVars, sizeVars>>

RunUninstall ==
    /\ Len(runs) < MaxRuns
    /\ enabledApplets' = UninstallEnabled(dconfFound, enabledApplets)
    /\ appletPath' = UninstallPath(appletPath)
    /\ runs' = Append(runs,
          [script |-> "uninstall", code |-> 0,
           pathBefore |-> appletPath, pathAfter |-> appletPath',
           enabledBefore |-> enabledApplets,
           enabledAfter |-> enabledApplets'])
    /\ UNCHANGED <<cinnamonFound, dconfFound, filesPresent, metaUuidOk>>
    /\ UNCHANGED <<layoutVars, groupVars, dragVars, sizeVars>>

ScriptNext == RunInstall \/ RunUninstall

----------------------------------------------------------------------------
(* Specifications, one per part *)

SpecLayout == LayoutInit /\ [][LayoutNext]_vars

SpecGroup == GroupInit /\ [][GroupNext]_vars

SpecDrag == DragInit /\ [][DragNext]_vars

SpecSize == SizeInit /\ [][SizeNext]_vars

SpecScripts == ScriptInit /\ [][ScriptNext]_vars

----------------------------------------------------------------------------
(* Properties of the layout planning pass *)

RowsPlanned == "rows" \in planned
ModePlanned == "mode" \in planned
WidthPlanned == "width" \in planned

\* The shrink branch of calcButtonWidth is taken: the inputs are not
\* degenerate and the visible buttons exceed the capacity at the configured width.
Overflows ==
    /\ visibleCount > 0 /\ containerWidth > 0 /\ maxRows > 0 /\ buttonWidth # 0
    /\ visibleCount > Max(1, containerWidth \div buttonWidth) * maxRows

\* C1: for containerWidth > 0, itemCount > 0, itemWidth > 0 and maxRows >= 1 the
\* row count is clamp(ceil(itemCount / max(1, floor(containerWidth / itemWidth))),
\* 1, maxRows), and so lies in [1, maxRows].
C1_RowCountFormula ==
    (RowsPlanned /\ containerWidth > 0 /\ visibleCount > 0 /\ buttonWidth > 0 /\ maxRows >= 1)
    => LET itemsPerRow == IF containerWidth \div buttonWidth >= 1
                          THEN containerWidth \div buttonWidth ELSE 1
           needed == CeilDiv(visibleCount, itemsPerRow)
           clamped == IF needed < 1 THEN 1 ELSE IF needed > maxRows THEN maxRows ELSE needed
       IN  /\ computedRows = clamped
           /\ computedRows >= 1
           /\ computedRows <= maxRows

\* C1 witness: a planned pass on non-degenerate inputs where the cap cuts the
\* needed rows down to maxRows >= 2.
C1_Witness ==
    /\ RowsPlanned /\ containerWidth > 0 /\ visibleCount > 0 /\ buttonWidth > 0
    /\ maxRows >= 2
    /\ CeilDiv(visibleCount, Max(1, containerWidth \div buttonWidth)) > maxRows
    /\ computedRows = maxRows

\* C2: in a plan whose mode is derived from the computed row count, for every
\* input (degenerate or not) rows = 1 exactly when the mode is "spacious" and
\* rows >= 2 exactly when it is "compact".
C2_ModeAgreesWithRows ==
    ModePlanned
    => /\ (computedRows = 1) <=> (layoutMode = "spacious")
       /\ (computedRows >= 2) <=> (layoutMode = "compact")

\* C2 witness: a plan on non-degenerate inputs with exactly two rows, derived
\* as compact.
C2_Witness ==
    /\ ModePlanned /\ visibleCount > 0 /\ containerWidth > 0 /\ buttonWidth > 0
    /\ computedRows = 2 /\ layoutMode = "compact"

\* C3 (as stated): with configuredItemWidth > 0 and minItemWidth > 0 the
\* effective width always satisfies minItemWidth <= effectiveWidth <= configuredItemWidth.
C3_WidthWithinBoundsAsStated ==
    (WidthPlanned /\ buttonWidth > 0 /\ minWidth > 0)
    => (minWidth <= effectiveWidth /\ effectiveWidth <= buttonWidth)

\* C3 (amended): with configuredItemWidth > 0 and minItemWidth > 0 the
\* effective width lies between the smaller and the larger of minItemWidth and
\* configuredItemWidth; so both stated bounds hold whenever
\* minItemWidth <= configuredItemWidth.
C3_WidthWithinBounds ==
    (WidthPlanned /\ buttonWidth > 0 /\ minWidth > 0)
    => /\ Min(minWidth, buttonWidth) <= effectiveWidth
       /\ effectiveWidth <= Max(minWidth, buttonWidth)
       /\ (minWidth <= buttonWidth
           => (minWidth <= effectiveWidth /\ effectiveWidth <= buttonWidth))

\* C3 witness: the shrink branch is taken and the floor holds the width up
\* (the unclamped quotient is below minWidth <= configured width).
C3_Witness ==
    /\ WidthPlanned /\ Overflows /\ buttonWidth > 0
    /\ minWidth <= buttonWidth
    /\ containerWidth \div CeilDiv(visibleCount, maxRows) < minWidth
    /\ effectiveWidth = minWidth

\* C4: for non-degenerate inputs the configured width is returned unchanged
\* whenever visibleCount <= max(1, floor(containerWidth/configuredWidth)) * maxRows
\* (the boundary counts as fits), and max(minWidth, floor(containerWidth /
\* ceil(visibleCount / maxRows))) is returned once visibleCount exceeds it.
C4_FitsOrShrinks ==
    (WidthPlanned /\ visibleCount > 0 /\ containerWidth > 0 /\ maxRows > 0 /\ buttonWidth > 0)
    => LET perRow == IF containerWidth \div buttonWidth >= 1
                     THEN containerWidth \div buttonWidth ELSE 1
           capacity == perRow * maxRows
           quotient == containerWidth \div CeilDiv(visibleCount, maxRows)
       IN  /\ (visibleCount <= capacity) => (effectiveWidth = buttonWidth)
           /\ (visibleCount >= capacity + 1)
              => (effectiveWidth = IF minWidth >= quotient THEN minWidth ELSE quotient)

\* C4 witness: the exact boundary, visibleCount = capacity with two or more
\* rows and more than one button per row, where shrinking would change the width.
C4_Witness ==
    /\ WidthPlanned /\ containerWidth > 0 /\ buttonWidth > 0 /\ maxRows >= 2
    /\ containerWidth \div buttonWidth >= 2
    /\ visibleCount = (containerWidth \div buttonWidth) * maxRows
    /\ ShrunkWidth(containerWidth, visibleCount, maxRows, minWidth) # buttonWidth
    /\ effectiveWidth = buttonWidth

\* C5: when calcButtonWidth shrinks and the floor does not hold the result up
\* (floor(containerWidth / ceil(visibleCount / maxRows)) >= minWidth), everything
\* fits within the row cap at the returned width:
\* effectiveWidth * ceil(visibleCount / maxRows) <= containerWidth and
\* ceil(visibleCount / floor(containerWidth / effectiveWidth)) <= maxRows.
C5_ShrunkWidthFits ==
    (/\ WidthPlanned /\ Overflows
     /\ containerWidth \div CeilDiv(visibleCount, maxRows) >= minWidth)
    => /\ effectiveWidth > 0
       /\ effectiveWidth * CeilDiv(visibleCount, maxRows) <= containerWidth
       /\ containerWidth \div effectiveWidth >= 1
       /\ CeilDiv(visibleCount, containerWidth \div effectiveWidth) <= maxRows

\* C5 witness: a shrink that is not held up by the floor and leaves a
\* remainder (the row of ceil(visibleCount / maxRows) buttons does not divide
\* the container width).
C5_Witness ==
    /\ WidthPlanned /\ Overflows /\ buttonWidth > 0
    /\ containerWidth \div CeilDiv(visibleCount, maxRows) > minWidth
    /\ containerWidth % CeilDiv(visibleCount, maxRows) # 0
    /\ effectiveWidth < buttonWidth

\* C6: buttons shrink only once wrapping has reached the row cap: for
\* containerWidth > 0, configuredWidth > 0 and maxRows >= 1, an effective width
\* different from the configured width implies the row count equals maxRows.
C6_ShrinkOnlyAtRowCap ==
    (/\ WidthPlanned /\ RowsPlanned
     /\ containerWidth > 0 /\ buttonWidth > 0 /\ maxRows >= 1)
    => /\ (effectiveWidth # buttonWidth) => (computedRows = maxRows)
       /\ (computedRows < maxRows) => (effectiveWidth = buttonWidth)

\* C6 witness: both results planned, the width shrunk, the rows at a cap of
\* two or more.
C6_Witness ==
    /\ WidthPlanned /\ RowsPlanned
    /\ containerWidth > 0 /\ buttonWidth > 0 /\ maxRows >= 2
    /\ effectiveWidth # buttonWidth
    /\ computedRows = maxRows

----------------------------------------------------------------------------
(* Properties of grouped insertion *)

Inserted == insertIndex # -1

\* Every pair of list positions holding app id `appId` has only that app id between them.
Contiguous(ws, appId) ==
    \A i, j \in 1..Len(ws) :
        (i < j /\ ws[i].appId = appId /\ ws[j].appId = appId)
        => \A k \in i..j : ws[k].appId = appId

\* 0-based indices of `ids` whose entry equals appId
MatchesOf(ids, appId) == {i \in 0..(Len(ids) - 1) : ids[i + 1] = appId}

LargestOf(S) == CHOOSE m \in S : \A o \in S : o <= m

\* C7 (as stated): starting from an empty list, after any sequence of
\* insertions at calcGroupedInsertionIndex, all items sharing the same non-null
\* key (any string, the empty string included) occupy contiguous positions.
C7_GroupsContiguousAsStated ==
    startedEmpty
    => \A appId \in AppIds \ {Null, Undefined} : Contiguous(windows, appId)

\* C7 (amended): starting from an empty list, after any sequence of insertions
\* at calcGroupedInsertionIndex, all items sharing the same truthy key (not null,
\* not undefined, not the empty string) occupy contiguous positions.
C7_GroupsContiguous ==
    startedEmpty
    => \A appId \in AppIds : ~IsFalsy(appId) => Contiguous(windows, appId)

\* C7 witness: a list grown from empty whose last insertion joined a group of
\* its own app in the middle of the list, right before a window of another app.
C7_Witness ==
    /\ startedEmpty /\ Inserted
    /\ insertIndex < Len(before)
    /\ ~IsFalsy(newAppId)
    /\ ~IsFalsy(before[insertIndex + 1].appId)
    /\ before[insertIndex + 1].appId # newAppId
    /\ Cardinality(MatchesOf(AppIdsOf(windows), newAppId)) >= 2

\* C8: calcGroupedInsertionIndex returns an integer in [0, len(existingKeys)]:
\* len(existingKeys) when newKey is falsy or no entry equals newKey, otherwise
\* (largest index whose key equals newKey) + 1, also with non-consecutive
\* matches and with null entries in the list.
C8_InsertionIndexValue ==
    Inserted
    => LET ids == AppIdsOf(before)
           matches == MatchesOf(ids, newAppId)
       IN  /\ insertIndex \in 0..Len(ids)
           /\ (IsFalsy(newAppId) \/ matches = {}) => insertIndex = Len(ids)
           /\ (~IsFalsy(newAppId) /\ matches # {}) => insertIndex = LargestOf(matches) + 1

\* C8 witness: the new app id matches non-consecutive entries of a list that
\* holds a null entry, and the index returned is inside the list.
C8_Witness ==
    /\ Inserted /\ ~IsFalsy(newAppId)
    /\ \E i, j, k \in 1..Len(before) :
         /\ i < j /\ j < k
         /\ before[i].appId = newAppId
         /\ before[j].appId = Null
         /\ before[k].appId = newAppId
    /\ insertIndex < Len(before)
    /\ insertIndex = LargestOf(MatchesOf(AppIdsOf(before), newAppId)) + 1

\* C9: for any initial list and any sequence of insertions placed at
\* calcGroupedInsertionIndex, the new item lands after all existing items with
\* the same key, items of one key appear in arrival order, and the relative
\* order of the items already in the list is unchanged by the insertion.
C9_ArrivalOrderKept ==
    /\ Inserted
       => LET pos == insertIndex + 1
          IN  /\ pos \in 1..Len(windows)
              /\ windows[pos].appId = newAppId
              /\ windows[pos].seq = Len(windows)
              /\ \A k \in 1..Len(windows) :
                     (k # pos /\ windows[k].appId = newAppId) => k < pos
              /\ SubSeq(windows, 1, pos - 1) \o SubSeq(windows, pos + 1, Len(windows)) = before
    /\ \A i, j \in 1..Len(windows) :
           (i < j /\ windows[i].appId = windows[j].appId) => windows[i].seq < windows[j].seq

\* C9 witness: an initial list whose groups are interleaved, and an insertion
\* into the middle of it, after the last window of the same app and before
\* a later window of another app.
C9_Witness ==
    /\ ~startedEmpty /\ Inserted /\ ~IsFalsy(newAppId)
    /\ insertIndex < Len(before)
    /\ \E i, j \in 1..insertIndex :
         /\ i < j
         /\ before[i].appId = newAppId
         /\ before[j].appId # newAppId
    /\ before[insertIndex].appId = newAppId

----------------------------------------------------------------------------
(* Properties of drag location *)

\* C10: calcDragInsertionIndex returns -1 for an empty rect sequence and
\* otherwise an index in [0, n-1] whose rect center is at minimal squared
\* distance from the cursor; among rects at the same minimal distance
\* (distance 0 included) the lowest index is returned.
C10_NearestLowestIndex ==
    dragged
    => LET n == Len(childRects)
           d(i) == Dist4(childRects[i + 1], cursorX, cursorY)
       IN  /\ (n = 0) => (insertPos = -1)
           /\ (n > 0) => /\ insertPos \in 0..(n - 1)
                         /\ \A j \in 0..(n - 1) : d(insertPos) <= d(j)
                         /\ \A j \in 0..(n - 1) : (j < insertPos) => (d(j) > d(insertPos))

\* C10 witness: three rects, the first farther from the cursor than the
\* second, the third at the same distance as the second but elsewhere; the
\* second is returned.
C10_Witness ==
    /\ dragged /\ Len(childRects) = 3
    /\ Dist4(childRects[1], cursorX, cursorY) > Dist4(childRects[2], cursorX, cursorY)
    /\ Dist4(childRects[3], cursorX, cursorY) = Dist4(childRects[2], cursorX, cursorY)
    /\ childRects[3] # childRects[2]
    /\ insertPos = 1

Abs(a) == IF a >= 0 THEN a ELSE -a

\* C11: in a multi-row layout, when a row-1 rect and a row-2 rect share the
\* same horizontal center and the cursor's y is strictly closer to the row-2
\* rect's vertical center than to the row-1 rect's, calcDragInsertionIndex
\* never returns the row-1 rect.
C11_RowTwoBeatsRowOne ==
    dragged
    => \A i, j \in 1..Len(childRects) :
         (/\ childRects[i].y < childRects[j].y
          /\ 2 * childRects[i].x + childRects[i].width
               = 2 * childRects[j].x + childRects[j].width
          /\ Abs(2 * cursorY - (2 * childRects[j].y + childRects[j].height))
               < Abs(2 * cursorY - (2 * childRects[i].y + childRects[i].height)))
         => insertPos # i - 1

\* C11 witness: the row-1 rect comes first in the sequence, the row-2 rect
\* second with the same horizontal center, the cursor lies in row 2 at that
\* center, and the row-2 rect is returned.
C11_Witness ==
    /\ dragged /\ Len(childRects) = 2
    /\ childRects[1].y = 0 /\ childRects[2].y = 2
    /\ childRects[1].x = childRects[2].x
    /\ childRects[1].width = childRects[2].width
    /\ 2 * cursorX = 2 * childRects[1].x + childRects[1].width
    /\ cursorY = 3
    /\ insertPos = 1

\* C12: isVertical has no influence on calcDragInsertionIndex: for every rect
\* sequence and cursor position the call with the flag negated returns the
\* index the call made returned.
C12_IsVerticalIgnored ==
    dragged
    => insertPos = calcDragInsertionIndex(childRects, cursorX, cursorY, ~isVertical)

\* C12 witness: a call with isVertical = TRUE that returned the second rect
\* although the first is strictly closer along y (it is farther along x), so
\* a distance taken along one axis would answer differently.
C12_Witness ==
    /\ dragged /\ isVertical /\ Len(childRects) >= 2
    /\ Abs(TwiceDy(childRects[1], cursorY)) < Abs(TwiceDy(childRects[2], cursorY))
    /\ Abs(TwiceDx(childRects[1], cursorX)) > Abs(TwiceDx(childRects[2], cursorX))
    /\ insertPos = 1

----------------------------------------------------------------------------
(* Further properties of the layout planning pass *)

\* C13: calcAdaptiveRowCount returns exactly 1 whenever itemCount <= 0,
\* containerWidth <= 0, itemWidth <= 0 or maxRows <= 0; it never returns zero
\* or a negative number (and is defined on every input).
C13_DegenerateRowsIsOne ==
    RowsPlanned
    => /\ (visibleCount <= 0 \/ containerWidth <= 0 \/ buttonWidth <= 0 \/ maxRows <= 0)
          => computedRows = 1
       /\ computedRows >= 1

\* C13 witness: a container width <= 0 with a positive item width and more
\* items than a row cap of two or more, planned as one row.
C13_Witness ==
    /\ RowsPlanned /\ containerWidth <= 0
    /\ buttonWidth > 0 /\ maxRows >= 2 /\ visibleCount > maxRows
    /\ computedRows = 1

\* C14: calcButtonWidth returns configuredWidth unchanged whenever
\* visibleCount <= 0, containerWidth <= 0 or maxRows <= 0, whatever minWidth is.
C14_DegenerateWidthUnchanged ==
    (WidthPlanned /\ (visibleCount <= 0 \/ containerWidth <= 0 \/ maxRows <= 0))
    => effectiveWidth = buttonWidth

\* C14 witness: a container width <= 0 with more buttons than the row cap
\* and a minWidth above the configured width, the configured width returned.
C14_Witness ==
    /\ WidthPlanned /\ containerWidth <= 0
    /\ maxRows >= 1 /\ visibleCount > maxRows
    /\ buttonWidth > 0 /\ minWidth > buttonWidth
    /\ effectiveWidth = buttonWidth

\* C16: for fixed containerWidth, itemWidth and maxRows, calcAdaptiveRowCount is
\* non-decreasing in itemCount (degenerate counts included), and it is at most
\* maxRows whenever maxRows >= 1.
C16_RowCountMonotone ==
    RowsPlanned
    => /\ \A more \in -1..(MaxCount + 1) :
            (visibleCount <= more)
            => computedRows <= calcAdaptiveRowCount(containerWidth, more, buttonWidth, maxRows)
       /\ \A fewer \in -1..(MaxCount + 1) :
            (fewer <= visibleCount)
            => calcAdaptiveRowCount(containerWidth, fewer, buttonWidth, maxRows) <= computedRows
       /\ (maxRows >= 1) => (computedRows <= maxRows)

\* C16 witness: one more item needs one more row (below the cap), and the
\* planned count already needs two rows.
C16_Witness ==
    /\ RowsPlanned /\ visibleCount > 0 /\ containerWidth > 0 /\ buttonWidth > 0
    /\ computedRows >= 2 /\ computedRows < maxRows
    /\ calcAdaptiveRowCount(containerWidth, visibleCount + 1, buttonWidth, maxRows)
         = computedRows + 1


----------------------------------------------------------------------------
(* Properties of size adaptation *)

RowHeightSized == "rowHeight" \in sized
FontSized == "fontSize" \in sized
IconSized == "iconSize" \in sized

\* C15 as stated: no core function fails on invalid geometry; every result is
\* a well-defined finite number for any zero or negative numeric input,
\* rows = 0 included.  calcRowHeight and calcAdaptiveIconSize divide by the
\* row count without a guard, so with rows = 0 the result is not finite.
C15_ResultsFinite ==
    /\ RowHeightSized => IsFinite(rowHeight)
    /\ IconSized => IsFinite(iconSize)

\* C17: for rows >= 1 the row height is floor((panelHeight - verticalMargin *
\* rows) / rows): the margin is subtracted once per row before dividing, and
\* the quotient is rounded down.
C17_RowHeightFormula ==
    (RowHeightSized /\ numberOfRows >= 1) =>
        LET available == panelHeight - (verticalMargin * numberOfRows)
        IN  /\ IsFinite(rowHeight)
            /\ rowHeight.v * numberOfRows <= available
            /\ available < (rowHeight.v + 1) * numberOfRows

C17_Witness ==
    /\ RowHeightSized
    /\ numberOfRows = 3 /\ verticalMargin = 2 /\ panelHeight = 80
    /\ rowHeight = Num(24)

\* C18: the adaptive font size is 0 when rows <= 1 (fall back to the theme),
\* otherwise floor(rowHeight / 3.5) clamped to [6, 10]; so it is always 0 or
\* within 6..10.
C18_FontSizeClamped ==
    FontSized =>
        /\ numberOfRows <= 1 => fontSize = 0
        /\ numberOfRows >= 2 =>
              LET available == panelHeight - (verticalMargin * numberOfRows)
                  rh == available \div numberOfRows
                  q == (2 * rh) \div 7
              IN  fontSize = (IF q < 6 THEN 6 ELSE IF q > 10 THEN 10 ELSE q)
        /\ fontSize \in ({0} \cup (6..10))

C18_Witness ==
    /\ FontSized /\ numberOfRows = 4 /\ panelHeight = 60 /\ verticalMargin = 0
    /\ fontSize = 6

C20_OverrideExact ==
    (IconSized /\ overrideSize > 0) => iconSize = Num(overrideSize)

C20_Witness ==
    /\ IconSized /\ overrideSize = 5 /\ numberOfRows = 2 /\ panelHeight = 60
    /\ iconSize = Num(5)


\* A valid panel geometry and configuration: height > 0, 1 to 4 rows, a
\* non-negative icon override.
ValidSizeInput ==
    /\ panelHeight >= 1
    /\ numberOfRows \in 1..4
    /\ overrideSize >= 0

\* C21 as stated: every plan produced from a valid geometry and configuration,
\* positive overrides included, has iconSize >= 12.
C21_IconAtLeastTwelveAsStated ==
    (IconSized /\ ValidSizeInput) => (IsFinite(iconSize) /\ iconSize.v >= 12)

\* C21 as amended: for a valid geometry and configuration iconSize >= 12
\* when the override is 0 or at least 12; a positive override below 12 is
\* returned as it is, so the icon size is then the override, below 12.
C21_IconAtLeastTwelve ==
    (IconSized /\ ValidSizeInput) =>
        /\ IsFinite(iconSize)
        /\ (overrideSize = 0 \/ overrideSize >= 12) => iconSize.v >= 12
        /\ overrideSize \in 1..11 =>
              (iconSize.v = overrideSize /\ iconSize.v < 12)

C21_Witness ==
    /\ IconSized /\ ValidSizeInput
    /\ overrideSize = 0 /\ numberOfRows = 4 /\ panelHeight = 40
    /\ iconSize = Num(12)

ButtonHeightSized == "buttonHeight" \in sized

\* C27: calcButtonHeight is equivalent to calcRowHeight: for every
\* panelHeight, numberOfRows and verticalMargin both return the same value.
C27_ButtonHeightIsRowHeight ==
    (RowHeightSized /\ ButtonHeightSized) => buttonHeight = rowHeight

C27_Witness ==
    /\ RowHeightSized /\ ButtonHeightSized
    /\ numberOfRows = 3 /\ verticalMargin = 2 /\ panelHeight = 80
    /\ buttonHeight = Num(24) /\ rowHeight = Num(24)

----------------------------------------------------------------------------
(* Further properties of the effective button width *)

\* C29: shrinking is a fixed point: for containerWidth > 0, configuredWidth
\* > 0, maxRows >= 1 and minWidth > 0, handing the computed width back as the
\* configured width returns it unchanged.
C29_ShrinkFixedPoint ==
    (/\ WidthPlanned /\ containerWidth > 0 /\ buttonWidth > 0
     /\ maxRows >= 1 /\ minWidth > 0) =>
        calcButtonWidth(containerWidth, visibleCount, effectiveWidth,
                        maxRows, minWidth) = effectiveWidth

C29_Witness ==
    /\ WidthPlanned
    /\ containerWidth = 16 /\ visibleCount = 9 /\ buttonWidth = 6
    /\ maxRows = 2 /\ minWidth = 2
    /\ effectiveWidth = 3
    /\ calcButtonWidth(16, 9, 3, 2, 2) = 3

\* C30: for fixed containerWidth > 0, configuredWidth > 0, maxRows >= 1 and
\* 0 < minWidth <= configuredWidth the effective width is non-increasing in
\* visibleCount: with more windows the buttons are never wider.
C30_WidthMonotone ==
    (/\ WidthPlanned /\ containerWidth > 0 /\ buttonWidth > 0
     /\ maxRows >= 1 /\ minWidth > 0 /\ minWidth <= buttonWidth) =>
        /\ \A more \in visibleCount..(MaxCount + 1) :
              calcButtonWidth(containerWidth, more, buttonWidth,
                              maxRows, minWidth) <= effectiveWidth
        /\ \A fewer \in (-1)..visibleCount :
              calcButtonWidth(containerWidth, fewer, buttonWidth,
                              maxRows, minWidth) >= effectiveWidth

C30_Witness ==
    /\ WidthPlanned
    /\ containerWidth = 16 /\ visibleCount = 9 /\ buttonWidth = 6
    /\ maxRows = 2 /\ minWidth = 2
    /\ effectiveWidth = 3
    /\ calcButtonWidth(16, 8, 6, 2, 2) = 4
    /\ calcButtonWidth(16, 10, 6, 2, 2) = 3

----------------------------------------------------------------------------
(* Properties of install.sh and uninstall.sh *)

\* C23: after a run of install.sh that exits 0, started with the applet path
\* absent, a symlink to the repo or a symlink to another target, the applet
\* path is a symlink to the repo; a second run of install.sh right after it
\* also exits 0 and changes neither the applet path nor the list.
C23_InstallIdempotent ==
    \A i \in 1..Len(runs) :
        (runs[i].script = "install" /\ runs[i].code = 0
         /\ runs[i].pathBefore \in {"absent", "link_repo", "link_other"}) =>
            /\ runs[i].pathAfter = "link_repo"
            /\ (i < Len(runs) /\ runs[i + 1].script = "install") =>
                  /\ runs[i + 1].code = 0
                  /\ runs[i + 1].pathAfter = runs[i].pathAfter
                  /\ runs[i + 1].enabledAfter = runs[i].enabledAfter

C23_Witness ==
    /\ Len(runs) = 2
    /\ runs[1].script = "install" /\ runs[1].code = 0
    /\ runs[1].pathBefore = "link_other" /\ runs[1].pathAfter = "link_repo"
    /\ runs[2].script = "install" /\ runs[2].code = 0
    /\ appletPath = "link_repo"

OtherEntries(list) == SelectSeq(list, LAMBDA e : e.uuid # UUID)

\* C25: uninstall.sh removes from enabled-applets exactly the entries that
\* contain the applet UUID and keeps every other entry in its original
\* order; without dconf the list is left untouched and the applet path is
\* still removed.
C25_OnlyOwnEntriesRemoved ==
    \A i \in 1..Len(runs) :
        runs[i].script = "uninstall" =>
            /\ dconfFound =>
                  /\ runs[i].enabledAfter = OtherEntries(runs[i].enabledBefore)
                  /\ ~ListContains(runs[i].enabledAfter, UUID)
            /\ ~dconfFound =>
                  /\ runs[i].enabledAfter = runs[i].enabledBefore
                  /\ runs[i].pathAfter = "absent"

C25_Witness ==
    /\ Len(runs) = 1 /\ runs[1].script = "uninstall" /\ dconfFound
    /\ Len(runs[1].enabledBefore) = 3
    /\ runs[1].enabledBefore[1].uuid = UUID
    /\ runs[1].enabledBefore[2].uuid = STOCK_UUID
    /\ runs[1].enabledBefore[3].uuid = UUID
    /\ enabledApplets = <<runs[1].enabledBefore[2]>>

\* C26: install.sh exits non-zero and changes nothing when cinnamon is not
\* found or a real directory is at the applet path (the directory stays, no
\* symlink is created); and no run of install.sh, successful or failed,
\* modifies the enabled-applets list.
C26_InstallFailsCleanly ==
    \A i \in 1..Len(runs) :
        runs[i].script = "install" =>
            /\ (~cinnamonFound \/ runs[i].pathBefore = "dir") =>
                  /\ runs[i].code # 0
                  /\ runs[i].pathAfter = runs[i].pathBefore
            /\ runs[i].enabledAfter = runs[i].enabledBefore

C26_Witness ==
    /\ Len(runs) = 1 /\ runs[1].script = "install"
    /\ cinnamonFound /\ filesPresent /\ metaUuidOk
    /\ runs[1].pathBefore = "dir" /\ runs[1].code = 1
    /\ appletPath = "dir"
    /\ ListContains(enabledApplets, UUID)


====
